---- MODULE Spec2Model ----
(***************************************************************************)
(* Layered storage of vis-util: the storage core (layer -> segment -> key  *)
(* -> value with a top level cache), the per-segment wrapper and the       *)
(* validation gate in front of the core.                                   *)
(***************************************************************************)
EXTENDS Integers, Sequences, FiniteSets, TLC

VARIABLES
    _data,           \* LayeredStorageCore._data: layer -> segment -> key -> value
    _layers,         \* LayeredStorageCore._layers: layers, highest first
    _segments,       \* LayeredStorageCore._segments: a Set, in insertion order
    _topLevelCache,  \* LayeredStorageCore._topLevelCache: segment -> key -> value
    _validators,     \* LayeredStorage: key -> list of validators
    _invalidHandler, \* LayeredStorage: the handler called with rejected values
    _transaction,    \* LayeredStorage: the open transaction and its pending list
    _listeners,      \* LayeredStorage: the key filters of the registered listeners
    _events,         \* the notifications of the last call, per listener
    lastOp,          \* history: the last call and how it ended
    written,         \* history: the segments ever passed to set or delete
    nops             \* history: the number of calls made so far

coreVars == <<_data, _layers, _segments, _topLevelCache>>
txVars == <<_transaction, _listeners, _events>>
vars == <<_data, _layers, _segments, _topLevelCache, _validators,
          _invalidHandler, _transaction, _listeners, _events, lastOp, written,
          nops>>

----------------------------------------------------------------------------
(* Bounds of the model. *)

MaxOps == 4
MaxLayer == 1
NumSegments == 2
NumKeys == 2
NumValues == 2

(* The special fallback segment (a unique Symbol in the source). *)
monolithic == "Monolithic"

SegmentNames == <<"S1", "S2", "S3", "S4">>
KeyNames == <<"test.integer", "test.string", "test.boolean", "test.number",
              "test.pass", "test.fail">>
ValueNames == <<"77", "'test'", "3.5", "true", "'3.5'", "null", "undefined">>

Min(a, b) == IF a < b THEN a ELSE b

Layers == 0..MaxLayer
Segments == {monolithic} \cup {SegmentNames[i] : i \in 1..Min(NumSegments, Len(SegmentNames))}
Keys == {KeyNames[i] : i \in 1..Min(NumKeys, Len(KeyNames))}
Values == {ValueNames[i] : i \in 1..Min(NumValues, Len(ValueNames))}

(* What Map.get and get return for a missing entry. *)
undefined == "undefined"

(* new Map() *)
EmptyMap == [x \in {} |-> x]

(* Map.set and Map.delete on a function with a finite domain. *)
MapSet(m, k, v) == [x \in (DOMAIN m) \cup {k} |-> IF x = k THEN v ELSE m[x]]
MapDelete(m, k) == [x \in (DOMAIN m) \ {k} |-> m[x]]
MapGet(m, k) == IF k \in DOMAIN m THEN m[k] ELSE undefined

(* Set.add and Set.delete on a Set kept in insertion order. *)
SeqRange(s) == {s[i] : i \in 1..Len(s)}
SetAdd(s, x) == IF x \in SeqRange(s) THEN s ELSE Append(s, x)
SetDelete(s, x) == SelectSeq(s, LAMBDA y : y # x)

----------------------------------------------------------------------------
(* LayeredStorageCore, as operators on the record of its four fields. *)

Core == [data |-> _data, layers |-> _layers, segments |-> _segments,
         cache |-> _topLevelCache]

(* A sort with the comparator reversed (a - b): lowest number first. *)
RECURSIVE sortNumeric(_)
sortNumeric(S) ==
    IF S = {} THEN <<>>
    ELSE LET m == CHOOSE x \in S : \A y \in S : x <= y
         IN <<m>> \o sortNumeric(S \ {m})

(* [...keys].sort(reverseNumeric): the keys, highest number first. *)
RECURSIVE sortReverseNumeric(_)
sortReverseNumeric(S) ==
    IF S = {} THEN <<>>
    ELSE LET m == CHOOSE x \in S : \A y \in S : y <= x
         IN <<m>> \o sortReverseNumeric(S \ {m})

(* _getLSData: the core after the maps of (layer, segment) were created. *)
_getLSData(c, layer, segment) ==
    LET c1 == IF layer \in DOMAIN c.data THEN c
              ELSE LET d == MapSet(c.data, layer, EmptyMap)
                   IN [c EXCEPT !.data = d,
                                !.layers = sortReverseNumeric(DOMAIN d)]
    IN IF segment \in DOMAIN c1.data[layer] THEN c1
       ELSE [c1 EXCEPT !.data[layer] = MapSet(@, segment, EmptyMap),
                       !.segments = SetAdd(@, segment)]

(* The layer loop with the two checks swapped: the monolithic map first. *)
RECURSIVE layerLoopMonolithicFirst(_, _, _, _, _)
layerLoopMonolithicFirst(c, ls, segment, key, j) ==
    IF j > Len(ls) THEN c
    ELSE LET layer == ls[j]
             c1 == _getLSData(c, layer, monolithic)
             lmData == c1.data[layer][monolithic]
             c2 == _getLSData(c1, layer, segment)
             lsData == c2.data[layer][segment]
         IN IF key \in DOMAIN lmData
            THEN [c1 EXCEPT !.cache[segment] = MapSet(@, key, lmData[key])]
            ELSE IF key \in DOMAIN lsData
                 THEN [c2 EXCEPT !.cache[segment] = MapSet(@, key, lsData[key])]
                 ELSE layerLoopMonolithicFirst(c2, ls, segment, key, j + 1)

(* The layer loop of _updateCache for one segment, from position j of the *)
(* layer list the loop iterates.                                          *)
RECURSIVE layerLoop(_, _, _, _, _)
layerLoop(c, ls, segment, key, j) ==
    IF j > Len(ls) THEN c
    ELSE LET layer == ls[j]
             c1 == _getLSData(c, layer, segment)
             lsData == c1.data[layer][segment]
             c2 == _getLSData(c1, layer, monolithic)
             lmData == c2.data[layer][monolithic]
         IN IF key \in DOMAIN lsData
            THEN [c1 EXCEPT !.cache[segment] = MapSet(@, key, lsData[key])]
            ELSE IF key \in DOMAIN lmData
                 THEN [c2 EXCEPT !.cache[segment] = MapSet(@, key, lmData[key])]
                 ELSE layerLoop(c2, ls, segment, key, j + 1)

(* The segment loop of _updateCache from position i of _segments; a Set   *)
(* iterator also visits the elements added while it runs.                 *)
RECURSIVE segmentsLoop(_, _, _)
segmentsLoop(c, key, i) ==
    IF i > Len(c.segments) THEN c
    ELSE LET segment == c.segments[i]
             c1 == IF segment \in DOMAIN c.cache THEN c
                   ELSE [c EXCEPT !.cache = MapSet(@, segment, EmptyMap)]
             c2 == [c1 EXCEPT !.cache[segment] = MapDelete(@, key)]
         IN segmentsLoop(layerLoop(c2, c2.layers, segment, key, 1), key, i + 1)

_updateCache(c, key) == segmentsLoop(c, key, 1)

get(c, segment, key) ==
    IF segment \in DOMAIN c.cache THEN MapGet(c.cache[segment], key)
    ELSE IF monolithic \in DOMAIN c.cache THEN MapGet(c.cache[monolithic], key)
    ELSE undefined

(* has reading as get does, with the fallback to the monolithic cache. *)
hasWithFallback(c, segment, key) ==
    IF segment \in DOMAIN c.cache THEN key \in DOMAIN c.cache[segment]
    ELSE IF monolithic \in DOMAIN c.cache THEN key \in DOMAIN c.cache[monolithic]
    ELSE FALSE

has(c, segment, key) ==
    IF segment \notin DOMAIN c.cache THEN FALSE
    ELSE key \in DOMAIN c.cache[segment]

(* set that leaves the cache as it was. *)
setWithoutCacheUpdate(c, layer, segment, key, value) ==
    LET c1 == _getLSData(c, layer, segment)
    IN [c1 EXCEPT !.data[layer][segment] = MapSet(@, key, value)]

set(c, layer, segment, key, value) ==
    LET c1 == _getLSData(c, layer, segment)
        c2 == [c1 EXCEPT !.data[layer][segment] = MapSet(@, key, value)]
    IN _updateCache(c2, key)

delete(c, layer, segment, key) ==
    LET c1 == _getLSData(c, layer, segment)
        c2 == [c1 EXCEPT !.data[layer][segment] = MapDelete(@, key)]
    IN _updateCache(c2, key)

(* deleteSegmentData that drops the cache entries of every segment. *)
deleteSegmentDataClearCache(c, segment) ==
    [c EXCEPT !.data = [l \in DOMAIN c.data |-> MapDelete(c.data[l], segment)],
              !.cache = EmptyMap,
              !.segments = SetDelete(@, segment)]

(* deleteSegmentData that keeps the segment's cache entries. *)
deleteSegmentDataKeepCache(c, segment) ==
    [c EXCEPT !.data = [l \in DOMAIN c.data |-> MapDelete(c.data[l], segment)],
              !.segments = SetDelete(@, segment)]

(* deleteSegmentData that keeps the segment's maps in the Raw Store. *)
deleteSegmentDataKeepData(c, segment) ==
    [c EXCEPT !.cache = MapDelete(@, segment),
              !.segments = SetDelete(@, segment)]

deleteSegmentData(c, segment) ==
    [c EXCEPT !.data = [l \in DOMAIN c.data |-> MapDelete(c.data[l], segment)],
              !.cache = MapDelete(@, segment),
              !.segments = SetDelete(@, segment)]

----------------------------------------------------------------------------
(* The state machine of the core: calls of set, delete, deleteSegmentData. *)

Become(c) ==
    /\ _data' = c.data
    /\ _layers' = c.layers
    /\ _segments' = c.segments
    /\ _topLevelCache' = c.cache

(* Whether the Raw Store holds an entry for (layer, segment, key). *)
Present(d, layer, segment, key) ==
    /\ layer \in DOMAIN d
    /\ segment \in DOMAIN d[layer]
    /\ key \in DOMAIN d[layer][segment]

(* Whether the Raw Store holds a value of segment on some layer. *)
HoldsData(d, segment) ==
    \E l \in DOMAIN d : segment \in DOMAIN d[l] /\ DOMAIN d[l][segment] # {}

(* The record of a call: its arguments; whether the Raw Store held, before  *)
(* it, an entry for its (layer, segment, key) or, for deleteSegmentData, a  *)
(* value of its segment; whether the call before it was deleteSegmentData   *)
(* of the same segment ("data" when that one removed values, else "empty"); *)
(* whether the call before it was a setValidators call for the same key     *)
(* that failed with other validators than the registered ones; whether the  *)
(* call before it was the same call with the same arguments; what a get or  *)
(* has returned; and whether it threw.                                      *)
Call(op, layer, segment, key, value, threw) ==
    [op |-> op, layer |-> layer, segment |-> segment, key |-> key,
     value |-> value,
     present |-> IF op = "deleteSegmentData" THEN HoldsData(_data, segment)
                 ELSE Present(_data, layer, segment, key),
     afterClear |-> IF lastOp.op = "deleteSegmentData" /\ lastOp.segment = segment
                    THEN (IF lastOp.present THEN "data" ELSE "empty")
                    ELSE "no",
     afterRefusal |-> /\ lastOp.op = "setValidators"
                      /\ lastOp.key = key
                      /\ lastOp.threw
                      /\ lastOp.present,
     repeated |-> /\ lastOp.op = op
                  /\ lastOp.layer = layer
                  /\ lastOp.segment = segment
                  /\ lastOp.key = key,
     result |-> undefined,
     threw |-> threw]

NoOp == [op |-> "none", layer |-> 0, segment |-> monolithic, key |-> "",
         value |-> undefined, present |-> FALSE, afterClear |-> "no",
         afterRefusal |-> FALSE, repeated |-> FALSE, result |-> undefined,
         threw |-> FALSE]

(* No transaction is open. *)
NoTransaction == [open |-> FALSE]

Init ==
    /\ _data = EmptyMap
    /\ _layers = <<>>
    /\ _segments = <<>>
    /\ _topLevelCache = EmptyMap
    /\ _validators = EmptyMap
    /\ _invalidHandler = "Default"
    /\ _transaction = NoTransaction
    /\ _listeners = <<>>
    /\ _events = <<>>
    /\ lastOp = NoOp
    /\ written = {}
    /\ nops = 0

Set(layer, segment, key, value) ==
    /\ nops < MaxOps
    /\ Become(set(Core, layer, segment, key, value))
    /\ lastOp' = Call("set", layer, segment, key, value, FALSE)
    /\ written' = written \cup {segment}
    /\ nops' = nops + 1
    /\ UNCHANGED <<_validators, _invalidHandler, txVars>>

Delete(layer, segment, key) ==
    /\ nops < MaxOps
    /\ Become(delete(Core, layer, segment, key))
    /\ lastOp' = Call("delete", layer, segment, key, undefined, FALSE)
    /\ written' = written \cup {segment}
    /\ nops' = nops + 1
    /\ UNCHANGED <<_validators, _invalidHandler, txVars>>

DeleteSegmentData(segment) ==
    /\ nops < MaxOps
    /\ Become(deleteSegmentData(Core, segment))
    /\ lastOp' = Call("deleteSegmentData", 0, segment, "", undefined, FALSE)
    /\ nops' = nops + 1
    /\ UNCHANGED <<_validators, _invalidHandler, written, txVars>>

Next ==
    \/ \E layer \in Layers, segment \in Segments, key \in Keys, value \in Values :
          Set(layer, segment, key, value)
    \/ \E layer \in Layers, segment \in Segments, key \in Keys :
          Delete(layer, segment, key)
    \/ \E segment \in Segments : DeleteSegmentData(segment)

Spec == Init /\ [][Next]_vars

----------------------------------------------------------------------------
(* The validation gate of LayeredStorage in front of the core, driven as   *)
(* the validation test drives it: through segment handles of the store.    *)

MaxLSOps == 3

(* The layer, segment (the global one), keys and values of the validation  *)
(* test.                                                                   *)
LSLayers == {0}
LSSegments == {monolithic}
LSKeys == SeqRange(KeyNames)
LSValues == SeqRange(ValueNames)

(* typeof value, and value % 1 === 0, of the values the test writes. *)
typeOf(value) ==
    CASE value \in {"77", "3.5"} -> "number"
      [] value \in {"'test'", "'3.5'"} -> "string"
      [] value = "true" -> "boolean"
      [] value = "null" -> "object"
      [] OTHER -> "undefined"

isWhole(value) == value = "77"

(* The validators of the test: TRUE, or the message of the rejection. *)
validate(validator, value) ==
    CASE validator = "boolean" ->
            IF typeOf(value) = "boolean" THEN "true" ELSE "it's not valid"
      [] validator = "number" ->
            IF typeOf(value) = "number" THEN "true" ELSE "it's not valid"
      [] validator = "integer" ->
            IF typeOf(value) = "number" /\ isWhole(value) THEN "true"
            ELSE "it's not valid"
      [] validator = "string" ->
            IF typeOf(value) = "string" THEN "true" ELSE "it's not valid"
      [] validator = "pass" -> "true"
      [] OTHER -> "it's not valid"

(* The validators the test registers for each key. *)
testValidators ==
    [key \in LSKeys |->
        CASE key = "test.boolean" -> <<"boolean">>
          [] key = "test.fail" -> <<"fail">>
          [] key = "test.integer" -> <<"number", "integer">>
          [] key = "test.number" -> <<"number">>
          [] key = "test.pass" -> <<"pass">>
          [] OTHER -> <<"string">>]

(* The validators of the second setValidators call of the test. *)
secondValidators == <<"pass">>

(* Handlers of which the one that does nothing throws as well. *)
everyHandlerThrows(handler) == handler \in {"Ignore", "Throw"}

(* The handler variants of the test: none, one that returns, one that throws. *)
Handlers == {"Default", "Ignore", "Throw"}
handlerThrows(handler) == handler = "Throw"

(* The messages of the validators of key that reject value, in order. *)
rejections(vs, key, value) ==
    IF key \notin DOMAIN vs THEN <<>>
    ELSE SelectSeq([i \in 1..Len(vs[key]) |-> validate(vs[key][i], value)],
                   LAMBDA m : m # "true")

(* LayeredStorage.set: the value reaches the core when no validator of the *)
(* key rejects it; a rejected value is handed to the invalid handler, if   *)
(* there is one, and dropped. The result: the core and whether set threw.  *)
storageSet(c, vs, handler, layer, segment, key, value) ==
    IF rejections(vs, key, value) = <<>>
    THEN [core |-> set(c, layer, segment, key, value), threw |-> FALSE]
    ELSE [core |-> c,
          threw |-> handler # "Default" /\ handlerThrows(handler)]

(* setValidators that overwrites the validators a key has. *)
setValidatorsOverwrite(vs, key, validators) ==
    [validators |-> MapSet(vs, key, validators), threw |-> FALSE]

(* LayeredStorage.setValidators without replace: fails for a key that has *)
(* validators.                                                            *)
setValidators(vs, key, validators) ==
    IF key \in DOMAIN vs THEN [validators |-> vs, threw |-> TRUE]
    ELSE [validators |-> MapSet(vs, key, validators), threw |-> FALSE]

InitLS ==
    /\ _data = EmptyMap
    /\ _layers = <<>>
    /\ _segments = <<>>
    /\ _topLevelCache = EmptyMap
    /\ _validators = EmptyMap
    /\ _invalidHandler \in Handlers
    /\ _transaction = NoTransaction
    /\ _listeners = <<>>
    /\ _events = <<>>
    /\ lastOp = NoOp
    /\ written = {}
    /\ nops = 0

SetValidators(key, validators) ==
    /\ nops < MaxLSOps
    /\ LET r == setValidators(_validators, key, validators)
       IN /\ _validators' = r.validators
          /\ lastOp' = [Call("setValidators", 0, monolithic, key, undefined,
                              r.threw)
                         EXCEPT !.present = /\ key \in DOMAIN _validators
                                            /\ _validators[key] # validators]
    /\ nops' = nops + 1
    /\ UNCHANGED <<coreVars, _invalidHandler, written, txVars>>

(* LayeredStorageSegment.set *)
SegmentSet(segment, layer, key, value) ==
    /\ nops < MaxLSOps
    /\ LET r == storageSet(Core, _validators, _invalidHandler, layer, segment,
                           key, value)
       IN /\ Become(r.core)
          /\ lastOp' = Call("set", layer, segment, key, value, r.threw)
          /\ written' = IF r.core = Core THEN written ELSE written \cup {segment}
    /\ nops' = nops + 1
    /\ UNCHANGED <<_validators, _invalidHandler, txVars>>

(* LayeredStorageSegment.delete *)
SegmentDelete(segment, layer, key) ==
    /\ nops < MaxLSOps
    /\ Become(delete(Core, layer, segment, key))
    /\ lastOp' = Call("delete", layer, segment, key, undefined, FALSE)
    /\ written' = written \cup {segment}
    /\ nops' = nops + 1
    /\ UNCHANGED <<_validators, _invalidHandler, txVars>>

(* LayeredStorageSegment.close *)
SegmentClose(segment) ==
    /\ nops < MaxLSOps
    /\ Become(deleteSegmentData(Core, segment))
    /\ lastOp' = Call("deleteSegmentData", 0, segment, "", undefined, FALSE)
    /\ nops' = nops + 1
    /\ UNCHANGED <<_validators, _invalidHandler, written, txVars>>

NextLS ==
    \/ \E key \in LSKeys :
          \E validators \in {testValidators[key], secondValidators} :
             SetValidators(key, validators)
    \/ \E segment \in LSSegments, layer \in LSLayers, key \in LSKeys,
          value \in LSValues : SegmentSet(segment, layer, key, value)
    \/ \E segment \in LSSegments, layer \in LSLayers, key \in LSKeys :
          SegmentDelete(segment, layer, key)
    \/ \E segment \in LSSegments : SegmentClose(segment)

SpecLS == InitLS /\ [][NextLS]_vars

----------------------------------------------------------------------------
(* The core with its reads as calls: get and has next to the mutations.    *)

MaxReadOps == 3

(* get that creates the maps of the segment it reads, as _getLSData does. *)
getCallCreating(c, segment, key) ==
    [core |-> IF c.layers = <<>> THEN c ELSE _getLSData(c, c.layers[1], segment),
     result |-> get(c, segment, key)]

(* A call of get: the core after it and what it returns. *)
getCall(c, segment, key) == [core |-> c, result |-> get(c, segment, key)]

(* A call of has: the core after it and what it returns. *)
hasCall(c, segment, key) ==
    [core |-> c, result |-> IF has(c, segment, key) THEN "true" ELSE "false"]

Get(segment, key) ==
    /\ nops < MaxReadOps
    /\ LET r == getCall(Core, segment, key)
       IN /\ Become(r.core)
          /\ lastOp' = [Call("get", 0, segment, key, undefined, FALSE)
                         EXCEPT !.result = r.result]
    /\ nops' = nops + 1
    /\ UNCHANGED <<_validators, _invalidHandler, written, txVars>>

Has(segment, key) ==
    /\ nops < MaxReadOps
    /\ LET r == hasCall(Core, segment, key)
       IN /\ Become(r.core)
          /\ lastOp' = [Call("has", 0, segment, key, undefined, FALSE)
                         EXCEPT !.result = r.result]
    /\ nops' = nops + 1
    /\ UNCHANGED <<_validators, _invalidHandler, written, txVars>>

NextRead ==
    \/ nops < MaxReadOps /\ Next
    \/ \E segment \in Segments, key \in Keys : Get(segment, key)
    \/ \E segment \in Segments, key \in Keys : Has(segment, key)

SpecRead == Init /\ [][NextRead]_vars

----------------------------------------------------------------------------
(* Transactions and change notifications of LayeredStorage, on top of the  *)
(* core: one transaction at a time, opened for a segment.                  *)

MaxTxOps == 4

TxSegments == {monolithic, SegmentNames[1]}

(* A staged operation. *)
SetOp(layer, key, value) ==
    [op |-> "set", layer |-> layer, key |-> key, value |-> value]
DeleteOp(layer, key) ==
    [op |-> "delete", layer |-> layer, key |-> key, value |-> undefined]

(* openTransaction(segment) and the start of runTransaction(segment, ...):  *)
(* an empty pending list. The record also keeps, as history, the core at    *)
(* the opening, every operation staged so far, how many operations the      *)
(* commits applied and how many commits there were.                         *)
openTransaction(c, segment, run) ==
    [open |-> TRUE, segment |-> segment, run |-> run, pending |-> <<>>,
     atOpen |-> c, all |-> <<>>, applied |-> 0, commits |-> 0]

(* Staging appends to the pending list. *)
stage(t, o) == [t EXCEPT !.pending = Append(@, o), !.all = Append(@, o)]

(* One pending operation applied to the Raw Store; a set of a value that a *)
(* validator of the key rejects is skipped.                                *)
applyToRawStore(c, vs, segment, o) ==
    LET c1 == _getLSData(c, o.layer, segment)
    IN IF o.op = "delete"
       THEN [c1 EXCEPT !.data[o.layer][segment] = MapDelete(@, o.key)]
       ELSE IF rejections(vs, o.key, o.value) # <<>> THEN c
       ELSE [c1 EXCEPT !.data[o.layer][segment] = MapSet(@, o.key, o.value)]

RECURSIVE applyPending(_, _, _, _, _)
applyPending(c, vs, segment, pending, i) ==
    IF i > Len(pending) THEN c
    ELSE applyPending(applyToRawStore(c, vs, segment, pending[i]), vs, segment,
                      pending, i + 1)

(* The distinct keys of the pending operations, in the order of staging. *)
RECURSIVE mutatedKeys(_, _)
mutatedKeys(pending, i) ==
    IF i > Len(pending) THEN <<>>
    ELSE LET rest == mutatedKeys(pending, i + 1)
             key == pending[i].key
         IN <<key>> \o SelectSeq(rest, LAMBDA k : k # key)

(* The cache invalidation of each key of the list, in order. *)
RECURSIVE updateKeys(_, _, _)
updateKeys(c, keys, i) ==
    IF i > Len(keys) THEN c
    ELSE updateKeys(_updateCache(c, keys[i]), keys, i + 1)

(* The keys of the list whose resolved value differs between two cores for *)
(* at least one segment.                                                   *)
changedKeys(before, after, keys) ==
    SelectSeq(keys, LAMBDA k :
        \E s \in Segments : get(after, s, k) # get(before, s, k))

(* The notifications of a list of changed keys: each listener gets the     *)
(* keys its filter matches, one notification per key.                      *)
emit(listeners, changed) ==
    [i \in DOMAIN listeners |-> SelectSeq(changed, LAMBDA k : k \in listeners[i])]

(* A commit that notifies once per pending operation. *)
commitNotifyingPerOperation(c, vs, listeners, t) ==
    LET keys == mutatedKeys(t.pending, 1)
        c1 == updateKeys(applyPending(c, vs, t.segment, t.pending, 1), keys, 1)
        staged == [i \in 1..Len(t.pending) |-> t.pending[i].key]
    IN [core |-> c1,
        transaction |-> [t EXCEPT !.pending = <<>>,
                                  !.applied = @ + Len(t.pending),
                                  !.commits = @ + 1],
        events |-> emit(listeners, changedKeys(c, c1, staged))]

(* A commit that applies the pending operations last first. *)
commitInReverse(c, vs, listeners, t) ==
    LET keys == mutatedKeys(t.pending, 1)
        reversed == [i \in 1..Len(t.pending) |-> t.pending[Len(t.pending) + 1 - i]]
        c1 == updateKeys(applyPending(c, vs, t.segment, reversed, 1), keys, 1)
    IN [core |-> c1,
        transaction |-> [t EXCEPT !.pending = <<>>,
                                  !.applied = @ + Len(t.pending),
                                  !.commits = @ + 1],
        events |-> emit(listeners, changedKeys(c, c1, keys))]

(* A commit that leaves the pending list as it was. *)
commitKeepingPending(c, vs, listeners, t) ==
    LET keys == mutatedKeys(t.pending, 1)
        c1 == updateKeys(applyPending(c, vs, t.segment, t.pending, 1), keys, 1)
    IN [core |-> c1,
        transaction |-> [t EXCEPT !.applied = @ + Len(t.pending),
                                  !.commits = @ + 1],
        events |-> emit(listeners, changedKeys(c, c1, keys))]

(* commit: the pending operations applied to the Raw Store in staging      *)
(* order, the cache invalidated once per distinct key, the pending list    *)
(* emptied, and one notification per changed key and matching listener.    *)
commit(c, vs, listeners, t) ==
    LET keys == mutatedKeys(t.pending, 1)
        c1 == updateKeys(applyPending(c, vs, t.segment, t.pending, 1), keys, 1)
    IN [core |-> c1,
        transaction |-> [t EXCEPT !.pending = <<>>,
                                  !.applied = @ + Len(t.pending),
                                  !.commits = @ + 1],
        events |-> emit(listeners, changedKeys(c, c1, keys))]

(* A staging that writes to the store at once. *)
stageAndApply(c, vs, listeners, t, o) ==
    LET r == commit(c, vs, listeners, [t EXCEPT !.pending = <<o>>])
    IN [core |-> r.core, transaction |-> stage(t, o)]

(* Staging through the transaction: the core is not touched. *)
stageCall(c, vs, listeners, t, o) == [core |-> c, transaction |-> stage(t, o)]

(* The listeners of the store: one for an exact key, one for a pattern     *)
(* that matches every key.                                                 *)
InitTx ==
    /\ _data = EmptyMap
    /\ _layers = <<>>
    /\ _segments = <<>>
    /\ _topLevelCache = EmptyMap
    /\ _validators = EmptyMap
    /\ _invalidHandler = "Default"
    /\ _transaction = NoTransaction
    /\ _listeners = <<{KeyNames[1]}, SeqRange(KeyNames)>>
    /\ _events = <<<<>>, <<>>>>
    /\ lastOp = NoOp
    /\ written = {}
    /\ nops = 0

(* LayeredStorageSegment.set outside a transaction: committed at once. *)
TxSegmentSet(segment, layer, key, value) ==
    /\ nops < MaxTxOps
    /\ ~_transaction.open
    /\ LET t == stage(openTransaction(Core, segment, FALSE),
                      SetOp(layer, key, value))
           r == commit(Core, _validators, _listeners, t)
       IN /\ Become(r.core)
          /\ _events' = r.events
    /\ lastOp' = Call("set", layer, segment, key, value, FALSE)
    /\ written' = written \cup {segment}
    /\ nops' = nops + 1
    /\ UNCHANGED <<_validators, _invalidHandler, _transaction, _listeners>>

(* LayeredStorageSegment.openTransaction *)
OpenTransaction(segment) ==
    /\ nops < MaxTxOps
    /\ ~_transaction.open
    /\ _transaction' = openTransaction(Core, segment, FALSE)
    /\ lastOp' = Call("openTransaction", 0, segment, "", undefined, FALSE)
    /\ nops' = nops + 1
    /\ UNCHANGED <<coreVars, _validators, _invalidHandler, _listeners, _events,
                   written>>

(* LayeredStorageSegment.runTransaction: the callback starts. *)
RunTransaction(segment) ==
    /\ nops < MaxTxOps
    /\ ~_transaction.open
    /\ _transaction' = openTransaction(Core, segment, TRUE)
    /\ lastOp' = Call("runTransaction", 0, segment, "", undefined, FALSE)
    /\ nops' = nops + 1
    /\ UNCHANGED <<coreVars, _validators, _invalidHandler, _listeners, _events,
                   written>>

(* transaction.set and transaction.delete *)
Stage(o) ==
    /\ nops < MaxTxOps
    /\ _transaction.open
    /\ LET r == stageCall(Core, _validators, _listeners, _transaction, o)
       IN /\ Become(r.core)
          /\ _transaction' = r.transaction
    /\ lastOp' = Call("stage " \o o.op, o.layer, _transaction.segment, o.key,
                      o.value, FALSE)
    /\ nops' = nops + 1
    /\ UNCHANGED <<_validators, _invalidHandler, _listeners, _events, written>>

(* transaction.commit, called by the owner of the transaction or by the     *)
(* callback of runTransaction.                                              *)
Commit ==
    /\ nops < MaxTxOps
    /\ _transaction.open
    /\ LET r == commit(Core, _validators, _listeners, _transaction)
       IN /\ Become(r.core)
          /\ _transaction' = r.transaction
          /\ _events' = r.events
    /\ lastOp' = Call("commit", 0, _transaction.segment, "", undefined, FALSE)
    /\ written' = IF _transaction.pending = <<>> THEN written
                  ELSE written \cup {_transaction.segment}
    /\ nops' = nops + 1
    /\ UNCHANGED <<_validators, _invalidHandler, _listeners>>

(* The callback of runTransaction returns: the automatic commit. *)
RunTransactionEnd ==
    /\ nops < MaxTxOps
    /\ _transaction.open
    /\ _transaction.run
    /\ LET r == commit(Core, _validators, _listeners, _transaction)
       IN /\ Become(r.core)
          /\ _transaction' = [r.transaction EXCEPT !.open = FALSE]
          /\ _events' = r.events
    /\ lastOp' = Call("runTransaction end", 0, _transaction.segment, "",
                      undefined, FALSE)
    /\ written' = IF _transaction.pending = <<>> THEN written
                  ELSE written \cup {_transaction.segment}
    /\ nops' = nops + 1
    /\ UNCHANGED <<_validators, _invalidHandler, _listeners>>

(* The owner of a transaction with nothing pending lets go of it. *)
DropTransaction ==
    /\ _transaction.open
    /\ ~_transaction.run
    /\ _transaction.pending = <<>>
    /\ _transaction.commits > 0
    /\ _transaction' = [_transaction EXCEPT !.open = FALSE]
    /\ lastOp' = Call("drop", 0, _transaction.segment, "", undefined, FALSE)
    /\ UNCHANGED <<coreVars, _validators, _invalidHandler, _listeners, _events,
                   written, nops>>

NextTx ==
    \/ \E segment \in TxSegments, layer \in Layers, key \in Keys, value \in Values :
          TxSegmentSet(segment, layer, key, value)
    \/ \E segment \in TxSegments : OpenTransaction(segment)
    \/ \E segment \in TxSegments : RunTransaction(segment)
    \/ \E layer \in Layers, key \in Keys, value \in Values :
          Stage(SetOp(layer, key, value))
    \/ \E layer \in Layers, key \in Keys : Stage(DeleteOp(layer, key))
    \/ Commit
    \/ RunTransactionEnd
    \/ DropTransaction

SpecTx == InitTx /\ [][NextTx]_vars

----------------------------------------------------------------------------
(* What the claims speak of. *)

(* The layers on which the Raw Store d holds an own value of segment for key. *)
OwnLayers(d, segment, key) == {l \in DOMAIN d : Present(d, l, segment, key)}

Highest(S) == CHOOSE x \in S : \A y \in S : y <= x

(* resolve(segment, key) recomputed from the Raw Store d: the highest layer *)
(* that holds a value for the segment or for the monolithic segment, the    *)
(* segment's own value first.                                               *)
resolve(d, segment, key) ==
    LET hits == OwnLayers(d, segment, key) \cup OwnLayers(d, monolithic, key)
    IN IF hits = {} THEN undefined
       ELSE LET top == Highest(hits)
            IN IF top \in OwnLayers(d, segment, key) THEN d[top][segment][key]
               ELSE d[top][monolithic][key]

(* get and has of every segment and key are the same before and after a step. *)
SameReads ==
    \A s \in Segments, k \in Keys :
        /\ get(Core', s, k) = get(Core, s, k)
        /\ has(Core', s, k) = has(Core, s, k)

(* C1: in every state reached by set, delete and deleteSegmentData calls,  *)
(* get(segment, key) equals resolve(segment, key) recomputed from the Raw  *)
(* Store, for every segment and key.                                       *)
C1_GetEqualsResolve ==
    \A s \in Segments, k \in Keys : get(Core, s, k) = resolve(_data, s, k)

(* C2: a segment that has no own value for a key at any layer reads the    *)
(* key as the monolithic segment does.                                     *)
C2_MonolithicFallback ==
    \A s \in Segments, k \in Keys :
        OwnLayers(_data, s, k) = {} => get(Core, s, k) = get(Core, monolithic, k)

(* C3: with no monolithic value for k, after a set that leaves S with own  *)
(* values for k on two layers get(S, k) is the value of the higher layer,  *)
(* whichever of the two was set last; after delete(hi, S, k) of the higher *)
(* of two own layers it is the value of the lower layer; and after a       *)
(* delete that leaves S with no own value it is undefined.                 *)
C3_HigherLayerWins ==
    [][\A s \in Segments \ {monolithic}, k \in Keys :
         (/\ lastOp'.segment = s
          /\ lastOp'.key = k
          /\ OwnLayers(_data', monolithic, k) = {})
         => LET before == OwnLayers(_data, s, k)
                after == OwnLayers(_data', s, k)
            IN /\ (lastOp'.op = "set" /\ Cardinality(after) >= 2)
                    => get(Core', s, k) = _data'[Highest(after)][s][k]
               /\ (/\ lastOp'.op = "delete"
                   /\ Cardinality(before) >= 2
                   /\ lastOp'.layer = Highest(before))
                    => get(Core', s, k) = _data[Highest(after)][s][k]
               /\ (lastOp'.op = "delete" /\ before # {} /\ after = {})
                    => get(Core', s, k) = undefined]_vars

(* C3 happened: a delete removed the value of the higher layer and get     *)
(* returns the value of the lower one, which differs from it.              *)
C3_Witness ==
    \E s \in Segments \ {monolithic}, k \in Keys :
        /\ lastOp.op = "delete" /\ lastOp.segment = s /\ lastOp.key = k
        /\ lastOp.present
        /\ lastOp.layer > 0
        /\ OwnLayers(_data, s, k) = {0}
        /\ OwnLayers(_data, monolithic, k) = {}
        /\ get(Core, s, k) = _data[0][s][k]

(* C4: a set on segmentA leaves get(segmentB, key) as it was for every     *)
(* other segmentB that has an own value for key at the written layer or    *)
(* above.                                                                  *)
C4_SegmentIsolation ==
    [][lastOp'.op = "set" =>
         \A b \in Segments \ {lastOp'.segment} :
            (\E l \in OwnLayers(_data, b, lastOp'.key) : l >= lastOp'.layer)
            => get(Core', b, lastOp'.key) = get(Core, b, lastOp'.key)]_vars

(* C5: a delete of a triple that holds no Raw Store entry changes no get   *)
(* and no has.                                                             *)
C5_DeleteAbsentIsNoOp ==
    [][(lastOp'.op = "delete" /\ ~lastOp'.present) => SameReads]_vars

InRawStore(d, segment) == \E l \in DOMAIN d : segment \in DOMAIN d[l]

(* C7 as claimed: after deleteSegmentData(S) has(S, k) is false for every  *)
(* key, and a second call in a row, or a call on a segment never written,  *)
(* changes neither Raw Store, cache, layer list nor known-segment set.     *)
C7_ClearIdempotent_Claimed ==
    [][lastOp'.op = "deleteSegmentData" =>
         LET s == lastOp'.segment
         IN /\ \A k \in Keys : ~has(Core', s, k)
            /\ (lastOp'.afterClear # "no" \/ s \notin written)
               => UNCHANGED coreVars]_vars

(* C7 as amended: the same, the never written case for segments that are   *)
(* not in the known-segment set (the monolithic segment is put there by    *)
(* the cache update of another segment's set or delete).                   *)
C7_ClearIdempotent ==
    [][lastOp'.op = "deleteSegmentData" =>
         LET s == lastOp'.segment
         IN /\ \A k \in Keys : ~has(Core', s, k)
            /\ (\/ lastOp'.afterClear # "no"
                \/ (s \notin written /\ s \notin SeqRange(_segments)))
               => UNCHANGED coreVars]_vars

(* C7 happened: a second deleteSegmentData in a row of a segment that was  *)
(* written before, on a store that still holds data.                       *)
C7_Witness ==
    \E s \in Segments :
        /\ lastOp.op = "deleteSegmentData" /\ lastOp.segment = s
        /\ lastOp.afterClear = "data"
        /\ s \in written
        /\ ~InRawStore(_data, s)
        /\ s \notin DOMAIN _topLevelCache
        /\ s \notin SeqRange(_segments)
        /\ \E t \in Segments \ {s}, k \in Keys : has(Core, t, k)

(* The Raw Store d with the maps of segment replaced by the one entry      *)
(* (layer, key, value).                                                    *)
FreshStore(d, layer, segment, key, value) ==
    [l \in (DOMAIN d) \cup {layer} |->
        LET others == IF l \in DOMAIN d THEN MapDelete(d[l], segment) ELSE EmptyMap
        IN IF l = layer THEN MapSet(others, segment, MapSet(EmptyMap, key, value))
           ELSE others]

testTable ==
    {<<FALSE, "test.boolean", "77">>,
     <<FALSE, "test.fail", "null">>,
     <<FALSE, "test.integer", "'3.5'">>,
     <<FALSE, "test.integer", "3.5">>,
     <<FALSE, "test.string", "undefined">>,
     <<TRUE, "test.boolean", "true">>,
     <<TRUE, "test.integer", "77">>,
     <<TRUE, "test.number", "3.5">>,
     <<TRUE, "test.number", "77">>,
     <<TRUE, "test.pass", "null">>,
     <<TRUE, "test.string", "'test'">>}

(* Every validator registered for key accepts value. *)
AllAccept(key, value) ==
    \A i \in 1..Len(_validators[key]) : validate(_validators[key][i], value) = "true"

(* C9: a set of a key that has validators stores the value, and get then   *)
(* returns it, exactly when every validator of the key accepts it (as the  *)
(* test's table says for its rows); a rejected value leaves Raw Store and  *)
(* cache as they were, and has(segment, key) false if it was false.        *)
C9_ValidatedSet ==
    [][(lastOp'.op = "set" /\ lastOp'.key \in DOMAIN _validators) =>
         LET layer == lastOp'.layer
             segment == lastOp'.segment
             key == lastOp'.key
             value == lastOp'.value
         IN /\ AllAccept(key, value)
                 => /\ Present(_data', layer, segment, key)
                    /\ _data'[layer][segment][key] = value
                    /\ get(Core', segment, key) = value
            /\ ~AllAccept(key, value)
                 => /\ UNCHANGED coreVars
                    /\ ~has(Core, segment, key) => ~has(Core', segment, key)
            /\ _validators[key] = testValidators[key]
                 => /\ <<TRUE, key, value>> \in testTable => AllAccept(key, value)
                    /\ <<FALSE, key, value>> \in testTable
                          => ~AllAccept(key, value)]_vars

(* C9 happened: on a store that holds a value, a rejected value of the     *)
(* test's table was set for a key with validators, and has of that key is  *)
(* false.                                                                  *)
C9_Witness ==
    /\ lastOp.op = "set"
    /\ lastOp.key \in DOMAIN _validators
    /\ _validators[lastOp.key] = testValidators[lastOp.key]
    /\ <<FALSE, lastOp.key, lastOp.value>> \in testTable
    /\ ~has(Core, lastOp.segment, lastOp.key)
    /\ \E k \in LSKeys : has(Core, lastOp.segment, k)

(* C10: a set throws exactly when a validator of the key rejects the value *)
(* and the invalid handler is one that throws; with no handler, with a     *)
(* handler that returns, or with a valid value it does not throw.          *)
C10_SetThrows ==
    [][lastOp'.op = "set" =>
         LET rejected == /\ lastOp'.key \in DOMAIN _validators
                         /\ ~AllAccept(lastOp'.key, lastOp'.value)
         IN /\ lastOp'.threw <=> (rejected /\ _invalidHandler = "Throw")
            /\ <<TRUE, lastOp'.key, lastOp'.value>> \in testTable
               => ~lastOp'.threw]_vars

(* C10 happened: a set of a rejected value of the test's table threw under *)
(* the throwing handler.                                                   *)
C10_Witness ==
    /\ lastOp.op = "set"
    /\ lastOp.threw
    /\ _validators[lastOp.key] = testValidators[lastOp.key]
    /\ _invalidHandler = "Throw"
    /\ <<FALSE, lastOp.key, lastOp.value>> \in testTable

(* C11: setValidators for a key that has validators fails, the validators  *)
(* of every key stay those of its first call, and a later set of the key   *)
(* stores the value when those accept it and leaves the store as it was    *)
(* when they do not.                                                       *)
C11_SetValidatorsTwice ==
    [][/\ \A key \in DOMAIN _validators :
             key \in DOMAIN _validators' /\ _validators'[key] = _validators[key]
       /\ lastOp'.op = "setValidators"
            => (lastOp'.threw <=> lastOp'.key \in DOMAIN _validators)
       /\ (lastOp'.op = "set" /\ lastOp'.afterRefusal)
            => IF AllAccept(lastOp'.key, lastOp'.value)
               THEN /\ Present(_data', lastOp'.layer, lastOp'.segment, lastOp'.key)
                    /\ _data'[lastOp'.layer][lastOp'.segment][lastOp'.key]
                         = lastOp'.value
               ELSE UNCHANGED coreVars]_vars

(* C11 happened: as in the test, the second setValidators call for         *)
(* "test.fail" threw and the set that followed was rejected by the         *)
(* validator of the first call, which the one of the second would accept.  *)
C11_Witness ==
    /\ lastOp.op = "set"
    /\ lastOp.afterRefusal
    /\ lastOp.key = "test.fail"
    /\ _validators["test.fail"] = testValidators["test.fail"]
    /\ ~has(Core, lastOp.segment, "test.fail")

(* C16: when S and the monolithic segment both hold a value for k, get(S,  *)
(* k) is S's own value if S's highest own layer is the monolithic one's    *)
(* highest layer or above it, and the monolithic value if that sits on a   *)
(* strictly higher layer.                                                  *)
C16_ResolutionOrder ==
    \A s \in Segments \ {monolithic}, k \in Keys :
        LET own == OwnLayers(_data, s, k)
            mono == OwnLayers(_data, monolithic, k)
        IN (own # {} /\ mono # {})
           => get(Core, s, k) = IF Highest(mono) > Highest(own)
                                THEN _data[Highest(mono)][monolithic][k]
                                ELSE _data[Highest(own)][s][k]

(* C16 happened: one segment shares its highest layer with the monolithic  *)
(* segment and reads its own value, another lies below it and reads the    *)
(* monolithic value; the values differ.                                    *)
C16_Witness ==
    \E s1, s2 \in Segments \ {monolithic}, k \in Keys :
        LET top == Highest(OwnLayers(_data, monolithic, k))
        IN /\ OwnLayers(_data, monolithic, k) # {}
           /\ OwnLayers(_data, s1, k) # {} /\ OwnLayers(_data, s2, k) # {}
           /\ Highest(OwnLayers(_data, s1, k)) = top
           /\ Highest(OwnLayers(_data, s2, k)) < top
           /\ _data[top][s1][k] # _data[top][monolithic][k]
           /\ get(Core, s1, k) = _data[top][s1][k]
           /\ get(Core, s2, k) = _data[top][monolithic][k]
           /\ get(Core, s2, k) # _data[Highest(OwnLayers(_data, s2, k))][s2][k]

(* C17: a set or delete changes get(T, k') for no segment T and no key k'  *)
(* other than the key of the call.                                         *)
C17_OnlyTheMutatedKey ==
    [][lastOp'.op \in {"set", "delete"} =>
         \A t \in Segments, k \in Keys \ {lastOp'.key} :
            get(Core', t, k) = get(Core, t, k)]_vars

(* The layer list holds the layers of the Raw Store, each once, highest first. *)
LayersSorted ==
    /\ SeqRange(_layers) = DOMAIN _data
    /\ Len(_layers) = Cardinality(DOMAIN _data)
    /\ \A i \in 1..Len(_layers) - 1 : _layers[i] > _layers[i + 1]

(* C18: in every state the layer list holds each layer of the Raw Store    *)
(* exactly once, in strictly descending order, and no call removes a layer *)
(* from it.                                                                *)
C18_LayersDescending ==
    /\ []LayersSorted
    /\ [][SeqRange(_layers) \subseteq SeqRange(_layers')]_vars

(* C18 happened: the layers were first written lowest first (the call that *)
(* created the highest layer came last) and the list has them all, the     *)
(* highest first.                                                          *)
C18_Witness ==
    /\ Len(_layers) = MaxLayer + 1
    /\ _layers[1] = MaxLayer
    /\ lastOp.op = "set" /\ lastOp.layer = MaxLayer
    /\ \A s \in Segments, k \in Keys :
          Present(_data, MaxLayer, s, k) => (s = lastOp.segment /\ k = lastOp.key)
    /\ DOMAIN _data[MaxLayer] = {lastOp.segment}
    /\ ~lastOp.present

(* C19: deleteSegmentData(S) of a non-monolithic segment S changes no get  *)
(* and no has of any other segment.                                        *)
C19_ClearLeavesOthers ==
    [][(lastOp'.op = "deleteSegmentData" /\ lastOp'.segment # monolithic) =>
         \A t \in Segments \ {lastOp'.segment}, k \in Keys :
            /\ get(Core', t, k) = get(Core, t, k)
            /\ has(Core', t, k) = has(Core, t, k)]_vars

(* C19 happened: a non-monolithic segment that held values was cleared,    *)
(* while another segment has a cached value and a third reads a value      *)
(* through the monolithic fallback.                                        *)
C19_Witness ==
    /\ lastOp.op = "deleteSegmentData"
    /\ lastOp.segment # monolithic
    /\ lastOp.present
    /\ \E t \in Segments \ {lastOp.segment, monolithic}, k \in Keys :
          get(Core, t, k) # undefined
    /\ \E k \in Keys : has(Core, monolithic, k)

(* C20: a get or has changes neither Raw Store, cache, layer list nor      *)
(* known-segment set, does not register the segment it reads, and returns  *)
(* what the same read returned in the call before it.                      *)
C20_ReadsAreReadOnly ==
    [][lastOp'.op \in {"get", "has"} =>
         /\ UNCHANGED coreVars
         /\ lastOp'.segment \notin SeqRange(_segments)
              => (/\ lastOp'.segment \notin SeqRange(_segments')
                  /\ lastOp'.segment \notin DOMAIN _topLevelCache'
                  /\ ~InRawStore(_data', lastOp'.segment))
         /\ lastOp'.repeated => lastOp'.result = lastOp.result
         /\ lastOp'.result = IF lastOp'.op = "get"
                             THEN get(Core', lastOp'.segment, lastOp'.key)
                             ELSE IF has(Core', lastOp'.segment, lastOp'.key)
                                  THEN "true" ELSE "false"]_vars

(* C20 happened: a get of a never written segment returned a monolithic    *)
(* value twice in a row and the segment is still unknown to the core.      *)
C20_Witness ==
    /\ lastOp.op = "get"
    /\ lastOp.repeated
    /\ lastOp.segment \notin written
    /\ lastOp.segment # monolithic
    /\ lastOp.result # undefined
    /\ lastOp.segment \notin SeqRange(_segments)

(* get and has of every segment and key are the same in two cores. *)
ReadsAgree(c1, c2) ==
    \A s \in Segments, k \in Keys :
        /\ get(c1, s, k) = get(c2, s, k)
        /\ has(c1, s, k) = has(c2, s, k)

(* The operations of a list made one by one, in order, as direct calls on  *)
(* the segment.                                                            *)
RECURSIVE sequential(_, _, _, _, _, _)
sequential(c, vs, handler, segment, ops, i) ==
    IF i > Len(ops) THEN c
    ELSE LET o == ops[i]
             c1 == IF o.op = "set"
                   THEN storageSet(c, vs, handler, o.layer, segment, o.key,
                                   o.value).core
                   ELSE delete(c, o.layer, segment, o.key)
         IN sequential(c1, vs, handler, segment, ops, i + 1)

(* The step is a commit, called or automatic. *)
Committing == lastOp'.op \in {"commit", "runTransaction end"}

(* The place of the last operation of a list on (layer, key); 0 if none. *)
LastStaged(ops, layer, key) ==
    LET hits == {i \in DOMAIN ops : ops[i].layer = layer /\ ops[i].key = key}
    IN IF hits = {} THEN 0 ELSE CHOOSE i \in hits : \A j \in hits : j <= i

(* How many times a key is in a list of notifications. *)
Notified(events, key) == Len(SelectSeq(events, LAMBDA k : k = key))

(* C12: while a transaction is open and commit was not called, get and has *)
(* of every segment and key return what they returned when the transaction *)
(* was opened; opening a transaction and staging a set or a delete change  *)
(* neither the Raw Store nor the cache.                                    *)
C12_StagingChangesNothing ==
    /\ []((_transaction.open /\ _transaction.commits = 0)
            => ReadsAgree(Core, _transaction.atOpen))
    /\ [][lastOp'.op \in {"openTransaction", "runTransaction", "stage set",
                          "stage delete"}
            => (SameReads /\ UNCHANGED coreVars)]_vars

(* A transaction not yet committed, on a store that holds a value, with a  *)
(* staged set of another value than the one read and a staged delete of an *)
(* entry the Raw Store holds.                                              *)
C12_Witness ==
    /\ _transaction.open
    /\ _transaction.commits = 0
    /\ \E i \in DOMAIN _transaction.pending :
          LET o == _transaction.pending[i]
          IN o.op = "set" /\ get(Core, _transaction.segment, o.key) # o.value
    /\ \E i \in DOMAIN _transaction.pending :
          LET o == _transaction.pending[i]
          IN o.op = "delete" /\ Present(_data, o.layer, _transaction.segment, o.key)

(* C13: a commit leaves get and has of every segment and key as the staged *)
(* operations made one by one, in staging order, as direct set and delete  *)
(* calls would; of two operations staged on the same (layer, key) the      *)
(* later one decides what the Raw Store holds.                             *)
C13_CommitIsSequential ==
    [][Committing =>
         /\ ReadsAgree(Core', sequential(Core, _validators, _invalidHandler,
                                         _transaction.segment,
                                         _transaction.pending, 1))
         /\ \A layer \in Layers, key \in Keys :
               LET i == LastStaged(_transaction.pending, layer, key)
                   segment == _transaction.segment
               IN i > 0 =>
                    IF _transaction.pending[i].op = "delete"
                    THEN ~Present(_data', layer, segment, key)
                    ELSE /\ Present(_data', layer, segment, key)
                         /\ _data'[layer][segment][key]
                              = _transaction.pending[i].value]_vars

(* A committed transaction that staged two different operations on the     *)
(* same (layer, key).                                                      *)
C13_Witness ==
    /\ lastOp.op = "commit"
    /\ _transaction.commits = 1
    /\ \E i, j \in DOMAIN _transaction.all :
          /\ i < j
          /\ _transaction.all[i].layer = _transaction.all[j].layer
          /\ _transaction.all[i].key = _transaction.all[j].key
          /\ _transaction.all[i] # _transaction.all[j]
          /\ LastStaged(_transaction.all, _transaction.all[j].layer,
                        _transaction.all[j].key) = j
          /\ _transaction.all[j].op = "set"
          /\ get(Core, _transaction.segment, _transaction.all[j].key)
               = _transaction.all[j].value

C15_RunTransactionOnce ==
    [][/\ Committing => _transaction'.pending = <<>>
       /\ lastOp'.op = "runTransaction end" =>
            /\ ~_transaction'.open
            /\ _transaction'.applied = Len(_transaction'.all)
            /\ ReadsAgree(Core', sequential(_transaction.atOpen, _validators,
                                            _invalidHandler,
                                            _transaction.segment,
                                            _transaction'.all, 1))
            /\ _transaction.pending = <<>>
                 => /\ UNCHANGED coreVars
                    /\ \A i \in DOMAIN _listeners : _events'[i] = <<>>]_vars

(* A runTransaction whose callback staged an operation that changed the    *)
(* store and committed it itself, and has returned.                        *)
C15_Witness ==
    /\ lastOp.op = "runTransaction end"
    /\ _transaction.commits = 2
    /\ _transaction.all # <<>>
    /\ _transaction.applied = Len(_transaction.all)
    /\ ~ReadsAgree(Core, _transaction.atOpen)
    /\ \A i \in DOMAIN _listeners : _events[i] = <<>>

====
